---- MODULE Spec2Model ----
(***************************************************************************)
(* A model of the GraphQL client of graphql.go: NewClient, Query, Mutate,  *)
(* the shared body Client.do, GraphQLErrors and OptionError.               *)
(*                                                                         *)
(* A request option is a function from the request to an error.  It is    *)
(* modelled by the record [name, err]: calling it leaves its name in the   *)
(* request (its mutation) and returns err ("" is Go's nil error).          *)
(* Slices are modelled as Go has them: a header [arr, len, cap] over a     *)
(* backing array that lives in the heap, so that append may write in place *)
(* or reallocate.                                                          *)
(***************************************************************************)
EXTENDS Integers, Sequences, FiniteSets, TLC

VARIABLES client, heap, registered, calls

vars == <<client, heap, registered, calls>>

----------------------------------------------------------------------------
(* Bounds of the model *)

MaxClientOpts == 1
MaxCallOpts == 2
MaxErrors == 2

(* Program constants *)

StatusOK == 200
queryOperation == 0
mutationOperation == 1

----------------------------------------------------------------------------
(* The inputs *)

Goroutines == {"g1", "g2"}

NoErr == ""

Options ==
  { [name |-> "a", err |-> NoErr],
    [name |-> "b", err |-> NoErr],
    [name |-> "x", err |-> "ex"],
    [name |-> "y", err |-> "ey"] }

NilOption == [name |-> "nil", err |-> NoErr]

SeqsUpTo(S, n) == UNION { [1..k -> S] : k \in 0..n }

ClientOptSeqs == SeqsUpTo(Options, MaxClientOpts)
CallOptSeqs == SeqsUpTo(Options, MaxCallOpts)
FewCallOptSeqs == SeqsUpTo(Options, 1)

(* map[string]interface{}: nil, empty, one binding, one binding whose value
   encoding/json cannot encode (a channel). *)
VariableMaps ==
  { [isNil |-> TRUE,  binds |-> {}],
    [isNil |-> FALSE, binds |-> {}],
    [isNil |-> FALSE, binds |-> {<<"n", "5">>}],
    [isNil |-> FALSE, binds |-> {<<"c", "chan">>}] }

FewVariableMaps == { m \in VariableMaps : m.isNil }

Messages == {"m1", "m2"}

ErrorArrays == SeqsUpTo(Messages, MaxErrors)

(* The "errors" member of a response body: absent, null or an array. *)
ErrorsMembers ==
  { [form |-> "absent", elems |-> <<>>], [form |-> "null", elems |-> <<>>] }
  \cup { [form |-> "array", elems |-> e] : e \in ErrorArrays }

(* The "data" member: absent, null, a value of the target's shape, a value
   of another shape. *)
DataMembers == {"absent", "null", "good", "bad"}

MalformedBody ==
  [wellFormed |-> FALSE, data |-> "absent",
   errors |-> [form |-> "absent", elems |-> <<>>]]

Bodies ==
  {MalformedBody}
  \cup { [wellFormed |-> TRUE, data |-> d, errors |-> e] :
           d \in DataMembers, e \in ErrorsMembers }

Statuses == {StatusOK, 201, 500}

Responses == [status : Statuses, body : Bodies]

TransportOutcomes ==
  { [err |-> "net", resp |-> [status |-> 0, body |-> MalformedBody]] }
  \cup { [err |-> NoErr, resp |-> r] : r \in Responses }

FewTransportOutcomes ==
  { o \in TransportOutcomes :
      o.err = NoErr => /\ o.resp.status = StatusOK
                       /\ o.resp.body.wellFormed
                       /\ o.resp.body.data = "good"
                       /\ o.resp.body.errors.form = "absent" }

----------------------------------------------------------------------------
(* Go slices *)

NilSlice == [arr |-> "none", len |-> 0, cap |-> 0]

SliceElems(h, s) == IF s.len = 0 THEN <<>> ELSE SubSeq(h[s.arr], 1, s.len)

(* append(s, xs...): no elements, s itself; room in the backing array, the
   elements are written in place after s's length; otherwise a new array
   (here the one named fresh) receives s's elements and xs. *)
GoAppend(h, s, xs, fresh) ==
  IF Len(xs) = 0 THEN [heap |-> h, slice |-> s]
  ELSE IF s.len + Len(xs) <= s.cap
  THEN [heap |-> [h EXCEPT ![s.arr] =
                    [k \in 1..s.cap |->
                       IF k > s.len /\ k <= s.len + Len(xs)
                       THEN xs[k - s.len] ELSE h[s.arr][k]]],
        slice |-> [s EXCEPT !.len = s.len + Len(xs)]]
  ELSE [heap |-> [h EXCEPT ![fresh] = SliceElems(h, s) \o xs],
        slice |-> [arr |-> fresh, len |-> s.len + Len(xs),
                   cap |-> s.len + Len(xs)]]

(* The call's options put before the client's. *)
BuildAllOptsCallFirst(h, requestOptions, opts, fresh) ==
  LET r1 == GoAppend(h, NilSlice, opts, fresh)
  IN  GoAppend(r1.heap, r1.slice, SliceElems(h, requestOptions), fresh)

(* The call's options appended to the client's own slice. *)
BuildAllOptsAliased(h, requestOptions, opts, fresh) ==
  GoAppend(h, requestOptions, opts, fresh)

(* The slice do ranges over (lines 75-77): the client's options appended to
   a nil slice, then the call's options appended to the result. *)
BuildAllOpts(h, requestOptions, opts, fresh) ==
  LET r1 == GoAppend(h, NilSlice, SliceElems(h, requestOptions), fresh)
  IN  GoAppend(r1.heap, r1.slice, opts, fresh)

----------------------------------------------------------------------------
(* Values of do *)

TargetType == "T"

NilVariables == [isNil |-> TRUE, binds |-> {}]

NoPayload == [keys |-> {}, query |-> [keyword |-> "", selection |-> "", decls |-> {}],
              variables |-> {}]

NoRequest == [method |-> "", url |-> "", contentType |-> "", body |-> NoPayload,
              applied |-> <<>>]

NoResponse == [status |-> 0, body |-> MalformedBody]

(* What a call returned: kind "none" while it runs, "nil" for a nil error. *)
NoResult == [kind |-> "none", cause |-> NoErr, status |-> 0,
             body |-> MalformedBody, errors |-> <<>>]

NilResult == [NoResult EXCEPT !.kind = "nil"]

PlainError(kind, cause) == [NoResult EXCEPT !.kind = kind, !.cause = cause]

(* &OptionError{Err: err} *)
OptionError(err) == [NoResult EXCEPT !.kind = "OptionError", !.cause = err]

(* OptionError.Unwrap *)
Unwrap(e) == e.cause

(* fmt.Errorf("non-200 OK status code: %v body: %q", resp.Status, body) *)
StatusError(status, body) ==
  [NoResult EXCEPT !.kind = "StatusError", !.status = status, !.body = body]

(* out.Errors returned as the error *)
GraphQLErrors(elems) == [NoResult EXCEPT !.kind = "GraphQLErrors", !.errors = elems]

(* GraphQLErrors.Error: e[0].Message *)
GraphQLErrorsError(e) == e[1]

IdleCall ==
  [pc |-> "idle", op |-> queryOperation, variables |-> NilVariables,
   opts |-> <<>>, req |-> NoRequest, allOpts |-> NilSlice, idx |-> 0,
   transportCalls |-> 0, steps |-> <<>>, resp |-> NoResponse,
   target |-> "pre", result |-> NoResult]

Finish(call, result) == [call EXCEPT !.pc = "done", !.result = result]

----------------------------------------------------------------------------
(* Building the request (do, lines 50-73) *)

constructQuery(v, variables) ==
  [keyword |-> "query", selection |-> v, decls |-> { b[1] : b \in variables.binds }]

constructMutation(v, variables) ==
  [keyword |-> "mutation", selection |-> v, decls |-> { b[1] : b \in variables.binds }]

compile(op, v, variables) ==
  IF op = queryOperation THEN constructQuery(v, variables)
  ELSE constructMutation(v, variables)

(* Only a nil map left out. *)
OmitVariablesNilOnly(variables) == variables.isNil

(* `json:"variables,omitempty"`: a map is left out when its length is 0 *)
OmitVariables(variables) == variables.isNil \/ variables.binds = {}

(* json.NewEncoder(&buf).Encode(in) *)
Encode(query, variables) ==
  IF \E b \in variables.binds : b[2] = "chan"
  THEN [err |-> "unsupported type", payload |-> NoPayload]
  ELSE [err |-> NoErr,
        payload |-> [keys |-> IF OmitVariables(variables) THEN {"query"}
                              ELSE {"query", "variables"},
                     query |-> query,
                     variables |-> variables.binds]]

(* do from its entry to the loop over allOpts (lines 49-77), for the call of
   goroutine g.  The record holds the call and the heap it leaves. *)
doPrepare(c, h, g, op, variables, opts) ==
  LET start == [IdleCall EXCEPT !.op = op, !.variables = variables, !.opts = opts]
      enc == Encode(compile(op, TargetType, variables), variables)
      all == BuildAllOpts(h, c.requestOptions, opts, g)
  IN  IF enc.err # NoErr
      THEN [call |-> Finish(start, PlainError("EncodeError", enc.err)), heap |-> h]
      ELSE IF c.url # "valid"
      THEN [call |-> Finish(start, PlainError("RequestError", "parse url")), heap |-> h]
      ELSE [call |-> [start EXCEPT
                        !.pc = "opts",
                        !.req = [method |-> "POST", url |-> c.url,
                                 contentType |-> "application/json",
                                 body |-> enc.payload, applied |-> <<>>],
                        !.allOpts = all.slice,
                        !.idx = 1],
            heap |-> all.heap]

(* The option's error dropped. *)
applyOptionIgnoringError(call, opt) ==
  [call EXCEPT !.req.applied = Append(@, opt.name), !.idx = @ + 1]

(* One iteration of the loop over allOpts (lines 79-83) *)
applyOption(call, opt) ==
  LET c1 == [call EXCEPT !.req.applied = Append(@, opt.name)]
  IN  IF opt.err # NoErr
      THEN Finish(c1, OptionError(opt.err))
      ELSE [c1 EXCEPT !.idx = @ + 1]

----------------------------------------------------------------------------
(* Handling the response (do, lines 85-113) *)

(* Any 2xx status accepted. *)
IsStatus2xx(status) == status >= StatusOK /\ status < StatusOK + 100

(* resp.StatusCode != http.StatusOK, negated *)
IsStatusOK(status) == status = StatusOK

(* io.ReadAll(resp.Body): the bytes the body yields *)
ReadAll(body) == body

(* json.NewDecoder(resp.Body).Decode(&out) into
   struct { Data pointer to json.RawMessage; Errors GraphQLErrors }: a null or absent
   member leaves the pointer or the slice nil, an array (empty too) makes a
   non-nil slice. *)
DecodeEnvelope(body) ==
  IF ~body.wellFormed
  THEN [err |-> "invalid JSON", Data |-> [isNil |-> TRUE, raw |-> ""],
        Errors |-> [isNil |-> TRUE, elems |-> <<>>]]
  ELSE [err |-> NoErr,
        Data |-> IF body.data \in {"absent", "null"}
                 THEN [isNil |-> TRUE, raw |-> ""]
                 ELSE [isNil |-> FALSE, raw |-> body.data],
        Errors |-> IF body.errors.form = "array"
                   THEN [isNil |-> FALSE, elems |-> body.errors.elems]
                   ELSE [isNil |-> TRUE, elems |-> <<>>]]

(* The data taken as present whatever it is. *)
DataPresentAlways(out) == TRUE

(* out.Data != nil *)
DataPresent(out) == ~out.Data.isNil

(* out.Errors != nil *)
HasErrorsNonNil(errs) == ~errs.isNil

(* len(out.Errors) > 0 *)
HasErrors(errs) == Len(errs.elems) > 0

(* jsonutil.UnmarshalGraphQL on out.Data and v: fills the target from data of
   its shape; on data of another shape it fails, having left the target as
   it was or partly filled. *)
UnmarshalGraphQL(raw, target, partial) ==
  IF raw = "good"
  THEN [err |-> NoErr, target |-> "good"]
  ELSE [err |-> "decode", target |-> IF partial THEN "partial" ELSE target]

(* Errors beside data taken as success. *)
aggregateDataWins(call, out) ==
  LET c1 == [call EXCEPT !.steps = Append(@, "aggregate")]
  IN  IF HasErrors(out.Errors) /\ out.Data.isNil
      THEN Finish(c1, GraphQLErrors(out.Errors.elems))
      ELSE Finish(c1, NilResult)

(* Only the first error returned. *)
aggregateFirstOnly(call, out) ==
  LET c1 == [call EXCEPT !.steps = Append(@, "aggregate")]
  IN  IF HasErrors(out.Errors)
      THEN Finish(c1, GraphQLErrors(<<out.Errors.elems[1]>>))
      ELSE Finish(c1, NilResult)

(* lines 110-113 *)
aggregate(call, out) ==
  LET c1 == [call EXCEPT !.steps = Append(@, "aggregate")]
  IN  IF HasErrors(out.Errors)
      THEN Finish(c1, GraphQLErrors(out.Errors.elems))
      ELSE Finish(c1, NilResult)

(* lines 103-109, then the aggregation *)
materialize(call, out, partial) ==
  IF DataPresent(out)
  THEN LET m == UnmarshalGraphQL(out.Data.raw, call.target, partial)
           c1 == [call EXCEPT !.steps = Append(@, "materialize"),
                              !.target = m.target]
       IN  IF m.err # NoErr
           THEN Finish(c1, PlainError("DecodeError", m.err))
           ELSE aggregate(c1, out)
  ELSE aggregate(call, out)

(* lines 94-102, then the rest *)
parse(call, partial) ==
  LET out == DecodeEnvelope(call.resp.body)
      c1 == [call EXCEPT !.steps = Append(@, "parse")]
  IN  IF out.err # NoErr
      THEN Finish(c1, PlainError("ParseError", out.err))
      ELSE materialize(c1, out, partial)

(* lines 89-93, then the rest *)
doReceive(call, partial) ==
  IF ~IsStatusOK(call.resp.status)
  THEN Finish(call, StatusError(call.resp.status, ReadAll(call.resp.body)))
  ELSE parse(call, partial)

(* A failed transport call made once more. *)
doSendRetrying(call, outcome, partial) ==
  LET c1 == [call EXCEPT !.transportCalls = @ + 1, !.steps = Append(@, "send")]
      c2 == [c1 EXCEPT !.transportCalls = @ + 1, !.steps = Append(@, "send")]
  IN  IF outcome.err # NoErr
      THEN Finish(c2, PlainError("TransportError", outcome.err))
      ELSE doReceive([c1 EXCEPT !.resp = outcome.resp], partial)

(* c.httpClient.Do(req) and everything after it (lines 85-113) *)
doSend(call, outcome, partial) ==
  LET c1 == [call EXCEPT !.transportCalls = @ + 1, !.steps = Append(@, "send")]
  IN  IF outcome.err # NoErr
      THEN Finish(c1, PlainError("TransportError", outcome.err))
      ELSE doReceive([c1 EXCEPT !.resp = outcome.resp], partial)

----------------------------------------------------------------------------
(* The state machine *)

(* NewClient(url, httpClient, opts...): the client keeps the caller's slice,
   whose backing array may be longer than the slice. *)
NewClient(url, opts, spare) ==
  [url |-> url,
   requestOptions |-> IF Len(opts) = 0 /\ spare = 0 THEN NilSlice
                      ELSE [arr |-> "client", len |-> Len(opts),
                            cap |-> Len(opts) + spare]]

Init ==
  \E url \in {"valid", "invalid"}, opts \in ClientOptSeqs, spare \in {0, MaxCallOpts} :
    /\ client = NewClient(url, opts, spare)
    /\ registered = opts
    /\ heap = [a \in {"client"} \cup Goroutines |->
                 IF a = "client"
                 THEN opts \o [k \in 1..spare |-> NilOption]
                 ELSE <<>>]
    /\ calls = [g \in Goroutines |-> IdleCall]

(* Client.Query: do with queryOperation, up to the loop over allOpts *)
Query(g, Maps, OptSeqs) ==
  /\ calls[g].pc = "idle"
  /\ \E variables \in Maps, opts \in OptSeqs :
       LET r == doPrepare(client, heap, g, queryOperation, variables, opts)
       IN  /\ calls' = [calls EXCEPT ![g] = r.call]
           /\ heap' = r.heap
  /\ UNCHANGED <<client, registered>>

(* Client.Mutate: do with mutationOperation, up to the loop over allOpts *)
Mutate(g, Maps, OptSeqs) ==
  /\ calls[g].pc = "idle"
  /\ \E variables \in Maps, opts \in OptSeqs :
       LET r == doPrepare(client, heap, g, mutationOperation, variables, opts)
       IN  /\ calls' = [calls EXCEPT ![g] = r.call]
           /\ heap' = r.heap
  /\ UNCHANGED <<client, registered>>

ApplyOption(g) ==
  /\ calls[g].pc = "opts"
  /\ calls[g].idx <= calls[g].allOpts.len
  /\ calls' = [calls EXCEPT ![g] =
                 applyOption(calls[g], heap[calls[g].allOpts.arr][calls[g].idx])]
  /\ UNCHANGED <<client, heap, registered>>

Send(g, Outcomes) ==
  /\ calls[g].pc = "opts"
  /\ calls[g].idx > calls[g].allOpts.len
  /\ \E outcome \in Outcomes, partial \in BOOLEAN :
       calls' = [calls EXCEPT ![g] = doSend(calls[g], outcome, partial)]
  /\ UNCHANGED <<client, heap, registered>>

(* The call has returned; its request, response and slice are garbage. *)
Return(g) ==
  /\ calls[g].pc = "done"
  /\ calls' = [calls EXCEPT ![g] = IdleCall]
  /\ heap' = [heap EXCEPT ![g] = <<>>]
  /\ UNCHANGED <<client, registered>>

(* One caller, all inputs *)
Next ==
  \/ Query("g1", VariableMaps, CallOptSeqs)
  \/ Mutate("g1", VariableMaps, CallOptSeqs)
  \/ ApplyOption("g1")
  \/ Send("g1", TransportOutcomes)
  \/ Return("g1")

Spec == Init /\ [][Next]_vars

(* Concurrent callers on one client *)
NextConcurrent ==
  \E g \in Goroutines :
    \/ Query(g, FewVariableMaps, FewCallOptSeqs)
    \/ Mutate(g, FewVariableMaps, FewCallOptSeqs)
    \/ ApplyOption(g)
    \/ Send(g, FewTransportOutcomes)
    \/ Return(g)

SpecConcurrent == Init /\ [][NextConcurrent]_vars

----------------------------------------------------------------------------
(* Properties *)

Names(os) == [k \in 1..Len(os) |-> os[k].name]

ErrOf(name) == (CHOOSE o \in Options : o.name = name).err

IsPrefix(p, q) == Len(p) <= Len(q) /\ p = SubSeq(q, 1, Len(p))

Occurs(x, q) == \E k \in 1..Len(q) : q[k] = x

(* The options a call has to apply: the registered ones, then its own. *)
Expected(g) == Names(registered \o calls[g].opts)

Applied(g) == calls[g].req.applied

Done(g) == calls[g].pc = "done"

(* The call got a response from the transport. *)
Responded(g) ==
  /\ Done(g)
  /\ calls[g].transportCalls >= 1
  /\ calls[g].result.kind # "TransportError"

(* ... with status 200 and a body that parses as an envelope. *)
Parsed(g) ==
  /\ Responded(g)
  /\ calls[g].resp.status = StatusOK
  /\ calls[g].resp.body.wellFormed

RespData(g) == calls[g].resp.body.data

RespErrors(g) == calls[g].resp.body.errors.elems

(* C1: in every call the options applied so far are the first ones of the
   client's options followed by the call's own, in that order; while the
   loop runs exactly idx - 1 of them have been applied, all without error;
   and the transport is only reached with every one of them applied once. *)
C1_OptionsInRegistrationOrder ==
  \A g \in Goroutines :
    /\ IsPrefix(Applied(g), Expected(g))
    /\ calls[g].pc = "opts" =>
         /\ Len(Applied(g)) = calls[g].idx - 1
         /\ \A k \in 1..Len(Applied(g)) : ErrOf(Applied(g)[k]) = NoErr
    /\ Occurs("send", calls[g].steps) => Applied(g) = Expected(g)

C1_Witness ==
  /\ Done("g1")
  /\ calls["g1"].transportCalls = 1
  /\ Names(registered) = <<"a">>
  /\ Names(calls["g1"].opts) = <<"b", "a">>
  /\ Applied("g1") = <<"a", "b", "a">>

(* C2: a call that applied a failing option has stopped there: the failing
   option is the last one applied, every earlier one succeeded, the
   transport was not invoked, the target is as before the call, and the
   call returned an OptionError that unwraps to that option's error. *)
C2_FirstFailingOptionAborts ==
  \A g \in Goroutines :
    /\ (\E k \in 1..Len(Applied(g)) : ErrOf(Applied(g)[k]) # NoErr) =>
         /\ Done(g)
         /\ calls[g].result.kind = "OptionError"
    /\ calls[g].result.kind = "OptionError" =>
         LET n == Len(Applied(g))
         IN  /\ n >= 1
             /\ ErrOf(Applied(g)[n]) # NoErr
             /\ Unwrap(calls[g].result) = ErrOf(Applied(g)[n])
             /\ \A k \in 1..(n - 1) : ErrOf(Applied(g)[k]) = NoErr
             /\ IsPrefix(Applied(g), Expected(g))
             /\ calls[g].transportCalls = 0
             /\ calls[g].steps = <<>>
             /\ calls[g].target = "pre"

C2_Witness ==
  /\ Done("g1")
  /\ calls["g1"].result.kind = "OptionError"
  /\ Unwrap(calls["g1"].result) = "ex"
  /\ Applied("g1") = <<"a", "x">>
  /\ Expected("g1") = <<"a", "x", "b">>

(* C3: status 200, data that is not null and a non-empty errors array never
   end in success; when the errors are what the call returns, the target
   holds the data. *)
C3_PartialSuccessIsFailure ==
  \A g \in Goroutines :
    (/\ Parsed(g)
     /\ RespData(g) \in {"good", "bad"}
     /\ Len(RespErrors(g)) > 0) =>
       /\ calls[g].result.kind \notin {"nil", "none"}
       /\ calls[g].result.kind = "GraphQLErrors" => calls[g].target = RespData(g)

C3_Witness ==
  /\ Parsed("g1")
  /\ RespData("g1") = "good"
  /\ RespErrors("g1") = <<"m1">>
  /\ calls["g1"].result.kind = "GraphQLErrors"
  /\ calls["g1"].target = "good"

(* C4: status 200, data null or absent and a non-empty errors array: the
   call returns the errors as GraphQLErrors, the materializer did not run
   and the target is as before the call. *)
C4_NullDataLeavesTarget ==
  \A g \in Goroutines :
    (/\ Parsed(g)
     /\ RespData(g) \in {"null", "absent"}
     /\ Len(RespErrors(g)) > 0) =>
       /\ calls[g].result = GraphQLErrors(RespErrors(g))
       /\ ~Occurs("materialize", calls[g].steps)
       /\ calls[g].target = "pre"

C4_Witness ==
  /\ Parsed("g1")
  /\ RespData("g1") = "null"
  /\ RespErrors("g1") = <<"m2", "m1">>
  /\ calls["g1"].result.kind = "GraphQLErrors"

(* C5: a response is taken further exactly when its status is 200; with any
   other status the call returns the status error with the response's
   status and body, nothing was parsed or materialized and the target is as
   before the call. *)
C5_OnlyStatus200 ==
  \A g \in Goroutines :
    Responded(g) =>
      /\ calls[g].result.kind = "StatusError" <=> calls[g].resp.status # StatusOK
      /\ calls[g].resp.status # StatusOK =>
           /\ calls[g].result = StatusError(calls[g].resp.status, calls[g].resp.body)
           /\ calls[g].steps = <<"send">>
           /\ calls[g].target = "pre"

C5_Witness ==
  /\ Responded("g1")
  /\ calls["g1"].resp.status = 201
  /\ calls["g1"].resp.body.wellFormed
  /\ RespData("g1") = "good"
  /\ calls["g1"].result.kind = "StatusError"
  /\ calls["g1"].result.body = calls["g1"].resp.body

(* C6: the transport is invoked at most once per call, the steps of a call
   are an initial part of send, parse, materialize (when data is there),
   aggregate, and each failure is the last thing its call did. *)
C6_NoRetries ==
  \A g \in Goroutines :
    /\ calls[g].transportCalls <= 1
    /\ Cardinality({ k \in 1..Len(calls[g].steps) : calls[g].steps[k] = "send" })
         = calls[g].transportCalls
    /\ calls[g].steps \in
         { <<>>, <<"send">>, <<"send", "parse">>,
           <<"send", "parse", "aggregate">>,
           <<"send", "parse", "materialize">>,
           <<"send", "parse", "materialize", "aggregate">> }
    /\ calls[g].result.kind \in {"TransportError", "StatusError"} =>
         calls[g].steps = <<"send">>
    /\ calls[g].result.kind = "ParseError" => calls[g].steps = <<"send", "parse">>
    /\ calls[g].result.kind = "DecodeError" =>
         calls[g].steps = <<"send", "parse", "materialize">>
    /\ (Responded(g) /\ calls[g].resp.status # StatusOK) =>
         calls[g].result.kind = "StatusError"
    /\ (Responded(g) /\ calls[g].resp.status = StatusOK
          /\ ~calls[g].resp.body.wellFormed) =>
         calls[g].result.kind = "ParseError"
    /\ (Parsed(g) /\ RespData(g) = "bad") => calls[g].result.kind = "DecodeError"

C6_Witness ==
  /\ Done("g1")
  /\ calls["g1"].result.kind = "TransportError"
  /\ calls["g1"].transportCalls = 1
  /\ calls["g1"].steps = <<"send">>

(* C7: when a call aggregates, no errors (an empty, null or absent array)
   give a nil result and otherwise the result is the whole array, whose
   Error() is the first message; no call returns an empty GraphQLErrors. *)
C7_AggregationNonEmpty ==
  \A g \in Goroutines :
    /\ (Done(g) /\ Occurs("aggregate", calls[g].steps)) =>
         IF Len(RespErrors(g)) = 0
         THEN calls[g].result = NilResult
         ELSE /\ calls[g].result = GraphQLErrors(RespErrors(g))
              /\ GraphQLErrorsError(calls[g].result.errors) = RespErrors(g)[1]
    /\ calls[g].result.kind = "GraphQLErrors" => Len(calls[g].result.errors) >= 1

C7_Witness ==
  /\ Done("g1")
  /\ calls["g1"].result.kind = "GraphQLErrors"
  /\ calls["g1"].result.errors = <<"m2", "m1">>
  /\ GraphQLErrorsError(calls["g1"].result.errors) = "m2"
  /\ RespData("g1") = "good"

(* C8 as stated: with status 200 and an envelope that parses, the errors
   array alone decides the result. *)
C8_ErrorsAloneDecide ==
  \A g \in Goroutines :
    Parsed(g) =>
      calls[g].result = IF Len(RespErrors(g)) > 0
                        THEN GraphQLErrors(RespErrors(g))
                        ELSE NilResult

(* C8, amended: with status 200 and an envelope that parses, data that fails
   to materialize makes the decode failure the result, whatever the errors
   array holds; otherwise the errors array decides: non-empty, it is the
   result, and if not the call succeeds. *)
C8_ErrorsDecideUnlessDecodeFails ==
  \A g \in Goroutines :
    Parsed(g) =>
      IF RespData(g) = "bad"
      THEN calls[g].result.kind = "DecodeError"
      ELSE calls[g].result = IF Len(RespErrors(g)) > 0
                             THEN GraphQLErrors(RespErrors(g))
                             ELSE NilResult

C8_Witness ==
  /\ Parsed("g1")
  /\ RespData("g1") = "bad"
  /\ RespErrors("g1") = <<"m1", "m2">>
  /\ calls["g1"].result.kind = "DecodeError"

(* C9: the request body of a call holds the document compiled for the
   call's operation kind under "query" and the caller's bindings under
   "variables", a key that is there exactly when the map has an entry. *)
C9_Payload ==
  \A g \in Goroutines :
    calls[g].req.method = "POST" =>
      LET body == calls[g].req.body
          variables == calls[g].variables
      IN  /\ "query" \in body.keys
          /\ body.keys \subseteq {"query", "variables"}
          /\ body.query.keyword =
               (IF calls[g].op = queryOperation THEN "query" ELSE "mutation")
          /\ body.query = compile(calls[g].op, TargetType, variables)
          /\ body.variables = variables.binds
          /\ "variables" \notin body.keys <=> (variables.isNil \/ variables.binds = {})

C9_Witness ==
  /\ calls["g1"].req.method = "POST"
  /\ calls["g1"].op = mutationOperation
  /\ ~calls["g1"].variables.isNil
  /\ calls["g1"].variables.binds = {}
  /\ calls["g1"].req.body.keys = {"query"}
  /\ calls["g1"].req.body.query.keyword = "mutation"

(* C10: with calls running concurrently on one client, the client's option
   list stays the one given to NewClient, and each call applies the
   client's options followed by its own, never another call's. *)
C10_ClientNotMutated ==
  /\ client.requestOptions.len = Len(registered)
  /\ SliceElems(heap, client.requestOptions) = registered
  /\ \A g \in Goroutines :
       /\ IsPrefix(Applied(g), Expected(g))
       /\ Occurs("send", calls[g].steps) => Applied(g) = Expected(g)

C10_Witness ==
  /\ client.requestOptions.cap > client.requestOptions.len
  /\ Names(registered) = <<"a">>
  /\ Names(calls["g1"].opts) = <<"b">>
  /\ Names(calls["g2"].opts) = <<"a">>
  /\ Applied("g1") = <<"a", "b">>
  /\ Applied("g2") = <<"a", "a">>
  /\ calls["g1"].pc = "opts"
  /\ calls["g2"].pc = "opts"

====
